---- MODULE Spec2Model ----
(***************************************************************************)
(* Model of the frame-by-frame emotion annotation pipeline of teste5.py:   *)
(* analyze_emotions (read -> DeepFace.analyze -> draw_emotions_on_frame -> *)
(* VideoWriter.write -> progress), the colour table EMOTIONS_COLORS, and   *)
(* the emotion tally of generate_context_from_emotions /                   *)
(* plot_emotion_distribution.                                              *)
(*                                                                         *)
(* One run of analyze_emotions is one behaviour.  The video (whether it    *)
(* can be opened, how many frames it yields, the frame count its metadata  *)
(* reports) is chosen in Init; what DeepFace.analyze gives for a frame and *)
(* whether VideoWriter.write raises are chosen when the call is made.      *)
(***************************************************************************)
EXTENDS Integers, Sequences, FiniteSets, TLC

\* ------------------------------------------------------------------ bounds
MaxFrames == 3        \* readable frames of a source video: 0..MaxFrames
MaxFrameCount == 4    \* CAP_PROP_FRAME_COUNT reported by the container

\* --------------------------------------------------------------- constants
output_path == "processed_video.mp4"

\* Sentinels for a dict key that is missing and for a value that is not a str.
Absent == "<absent>"
NonString == "<None>"

\* EMOTIONS_COLORS: label -> BGR colour.
EMOTIONS_COLORS ==
  [e \in {"happy", "sad", "angry", "surprise", "fear", "neutral", "disgust", "Unknown"} |->
     CASE e = "happy"    -> <<0, 255, 0>>
       [] e = "sad"      -> <<255, 0, 0>>
       [] e = "angry"    -> <<0, 0, 255>>
       [] e = "surprise" -> <<255, 255, 0>>
       [] e = "fear"     -> <<128, 0, 128>>
       [] e = "neutral"  -> <<255, 255, 255>>
       [] e = "disgust"  -> <<0, 128, 0>>
       [] e = "Unknown"  -> <<128, 128, 128>>]

\* EMOTIONS_COLORS.get(emotion, (255, 255, 255)) of draw_emotions_on_frame.
DrawColor(emotion) ==
  IF emotion \in DOMAIN EMOTIONS_COLORS THEN EMOTIONS_COLORS[emotion]
  ELSE <<255, 255, 255>>

\* EMOTIONS_COLORS.get(e, "gray") of plot_emotion_distribution; matplotlib's
\* named colour "gray" is #808080.
ChartColor(e) ==
  IF e \in DOMAIN EMOTIONS_COLORS THEN EMOTIONS_COLORS[e]
  ELSE <<128, 128, 128>>

\* face_data.get("dominant_emotion", "Unknown")
DominantEmotion(face_data) ==
  IF face_data.emotion = Absent THEN "Unknown" ELSE face_data.emotion

\* ------------------------------------------------------ detector outcomes
\* A face record of DeepFace: region is "ok" (a mapping), "absent" (no
\* "region" key) or "bad" (present but not a mapping, so .get raises);
\* emotion is a label, Absent (no key) or NonString (putText rejects it).
Face(region, emotion) == [region |-> region, emotion |-> emotion]

NoFace == Face("absent", Absent)

AnalysisRaise == [kind |-> "raise", item |-> NoFace, items |-> <<>>]
AnalysisDict(f) == [kind |-> "dict", item |-> f, items |-> <<>>]
AnalysisList(fs) == [kind |-> "list", item |-> NoFace, items |-> fs]

\* What DeepFace.analyze may give for one frame.
Analyses ==
  { AnalysisRaise,
    AnalysisList(<<>>),
    AnalysisDict(Face("ok", "happy")),
    AnalysisList(<<Face("ok", "contempt"), Face("absent", "sad")>>),
    AnalysisList(<<Face("ok", Absent), Face("bad", "happy")>>),
    AnalysisList(<<Face("ok", NonString)>>) }

\* analysis if isinstance(analysis, list) else [analysis]
Normalize(analysis) ==
  IF analysis.kind = "list" THEN analysis.items ELSE <<analysis.item>>

\* ------------------------------------------------------------------ frames
Rectangle(color) == [shape |-> "rectangle", color |-> color, text |-> ""]
PutText(emotion, color) == [shape |-> "text", color |-> color, text |-> emotion]

NewFrame(id) == [id |-> id, marks |-> <<>>]
NoFrame == [id |-> -1, marks |-> <<>>]

\* draw_emotions_on_frame: cv2.rectangle and cv2.putText draw on the frame
\* in place, so what was drawn before an exception stays on the frame.
RECURSIVE DrawMarks(_, _)
DrawMarks(marks, analysis) ==
  IF analysis = <<>> THEN [marks |-> marks, raised |-> FALSE]
  ELSE LET face_data == Head(analysis) IN
    IF face_data.region = "absent" THEN DrawMarks(marks, Tail(analysis))
    ELSE IF face_data.region = "bad" THEN [marks |-> marks, raised |-> TRUE]
    ELSE LET emotion == DominantEmotion(face_data)
             color == DrawColor(emotion)
             boxed == Append(marks, Rectangle(color))
         IN IF emotion = NonString THEN [marks |-> boxed, raised |-> TRUE]
            ELSE DrawMarks(Append(boxed, PutText(emotion, color)), Tail(analysis))

draw_emotions_on_frame(frame, analysis) ==
  LET r == DrawMarks(frame.marks, analysis)
  IN [frame |-> [id |-> frame.id, marks |-> r.marks], raised |-> r.raised]

\* The try block of analyze_emotions on one frame: the frame as it is after
\* the block and whether the except branch ran.
TryBlock(frame, analysis) ==
  IF analysis.kind = "raise" THEN [frame |-> frame, raised |-> TRUE]
  ELSE draw_emotions_on_frame(frame, Normalize(analysis))

\* Mutant of LogWarning: the warning cites the 1-based frame position.
LogWarning_OneBased(log, n) == Append(log, n + 1)

\* logger.warning(f"Erro ao processar o frame {frame_number}: {e}")
LogWarning(log, n) == Append(log, n)

\* Mutant of AfterTry: the except branch skips the rest of the iteration.
AfterTry_Continue(raised) == IF raised THEN "loop" ELSE "write"

\* The statement after try/except is output_video.write(frame) on both paths.
AfterTry(raised) == "write"

\* ------------------------------------------------------------- aggregation
\* emotion_counts of generate_context_from_emotions and
\* plot_emotion_distribution: label -> occurrences.
RECURSIVE emotion_counts(_)
emotion_counts(emotion_data) ==
  IF emotion_data = <<>> THEN <<>>
  ELSE LET n == Len(emotion_data)
           rest == emotion_counts(SubSeq(emotion_data, 1, n - 1))
           emotion == DominantEmotion(emotion_data[n])
           seen == { i \in 1..Len(rest) : rest[i][1] = emotion }
       IN IF seen = {} THEN Append(rest, <<emotion, 1>>)
          ELSE [ i \in 1..Len(rest) |->
                   IF i \in seen THEN <<emotion, rest[i][2] + 1>> ELSE rest[i] ]

RECURSIVE SumCounts(_)
SumCounts(counts) ==
  IF counts = <<>> THEN 0 ELSE counts[1][2] + SumCounts(Tail(counts))

\* ------------------------------------------------------------------- state
VARIABLES
  source_ok,        \* cv2.VideoCapture(video_path) can open the file
  num_frames,       \* frames the source yields before read() gives ret=False
  meta_count,       \* CAP_PROP_FRAME_COUNT of the container
  pc,               \* position in analyze_emotions
  capture_open,     \* video_capture.isOpened()
  frame_count,      \* local frame_count
  frame_number,     \* local frame_number
  frame,            \* local frame
  frames_read,      \* ids of the frames video_capture.read() returned
  analyses,         \* what DeepFace.analyze gave, one entry per frame analysed
  written,          \* frames given to output_video.write, in order
  warnings,         \* frame numbers cited by logger.warning, in order
  progress_values,  \* <<numerator, denominator>> given to st.progress
  capture_releases, \* calls of video_capture.release()
  writer_releases,  \* calls of output_video.release()
  emotion_data,     \* face records handed to the emotion tally
  error,            \* exception that left analyze_emotions, or "none"
  returned          \* return value of analyze_emotions, or "none"

vars == << source_ok, num_frames, meta_count, pc, capture_open, frame_count,
           frame_number, frame, frames_read, analyses, written, warnings,
           progress_values, capture_releases, writer_releases, emotion_data,
           error, returned >>

video == << source_ok, num_frames, meta_count >>

Init ==
  /\ source_ok \in BOOLEAN
  /\ num_frames \in 0..MaxFrames
  /\ meta_count \in 0..MaxFrameCount
  /\ ~source_ok => num_frames = 0 /\ meta_count = 0
  /\ pc = "open"
  /\ capture_open = FALSE
  /\ frame_count = 0
  /\ frame_number = 0
  /\ frame = NoFrame
  /\ frames_read = <<>>
  /\ analyses = <<>>
  /\ written = <<>>
  /\ warnings = <<>>
  /\ progress_values = <<>>
  /\ capture_releases = 0
  /\ writer_releases = 0
  /\ emotion_data = <<>>
  /\ error = "none"
  /\ returned = "none"

\* Lines 39-49: open the capture and the writer, st.progress(0), read the
\* reported frame count (0 for a capture that is not opened).
Open ==
  /\ pc = "open"
  /\ capture_open' = source_ok
  /\ progress_values' = << <<0, 1>> >>
  /\ frame_count' = IF source_ok THEN meta_count ELSE 0
  /\ frame_number' = 0
  /\ pc' = "loop"
  /\ UNCHANGED << video, frame, frames_read, analyses, written, warnings,
                  capture_releases, writer_releases, emotion_data, error, returned >>

\* Line 51: while video_capture.isOpened() is false at once for a capture
\* that could not be opened.
NotOpened ==
  /\ pc = "loop"
  /\ ~capture_open
  /\ pc' = "finalize"
  /\ UNCHANGED << video, capture_open, frame_count, frame_number, frame,
                  frames_read, analyses, written, warnings, progress_values,
                  capture_releases, writer_releases, emotion_data, error, returned >>

\* Lines 51-52: read() returns the next frame.
ReadFrame ==
  /\ pc = "loop"
  /\ capture_open
  /\ Len(frames_read) < num_frames
  /\ frame' = NewFrame(Len(frames_read))
  /\ frames_read' = Append(frames_read, Len(frames_read))
  /\ pc' = "try"
  /\ UNCHANGED << video, capture_open, frame_count, frame_number, analyses,
                  written, warnings, progress_values, capture_releases,
                  writer_releases, emotion_data, error, returned >>

\* Lines 52-54: read() returns ret = False, break.
EndOfStream ==
  /\ pc = "loop"
  /\ capture_open
  /\ Len(frames_read) >= num_frames
  /\ pc' = "finalize"
  /\ UNCHANGED << video, capture_open, frame_count, frame_number, frame,
                  frames_read, analyses, written, warnings, progress_values,
                  capture_releases, writer_releases, emotion_data, error, returned >>

\* Lines 55-59: analyse and annotate the frame; any exception is logged.
\* The analysis is used for drawing only: nothing is kept for the tally.
Detect ==
  /\ pc = "try"
  /\ \E analysis \in Analyses :
       LET r == TryBlock(frame, analysis) IN
         /\ analyses' = Append(analyses, analysis)
         /\ frame' = r.frame
         /\ warnings' = IF r.raised THEN LogWarning(warnings, frame_number)
                        ELSE warnings
         /\ pc' = AfterTry(r.raised)
  /\ UNCHANGED << video, capture_open, frame_count, frame_number, frames_read,
                  written, progress_values, capture_releases, writer_releases,
                  emotion_data, error, returned >>

\* Line 60: output_video.write(frame).
WriteFrame ==
  /\ pc = "write"
  /\ written' = Append(written, frame)
  /\ pc' = "progress"
  /\ UNCHANGED << video, capture_open, frame_count, frame_number, frame,
                  frames_read, analyses, warnings, progress_values,
                  capture_releases, writer_releases, emotion_data, error, returned >>

\* Line 60: output_video.write(frame) raises; nothing catches it.
WriteRaises ==
  /\ pc = "write"
  /\ error' = "cv2.error"
  /\ pc' = "raised"
  /\ UNCHANGED << video, capture_open, frame_count, frame_number, frame,
                  frames_read, analyses, written, warnings, progress_values,
                  capture_releases, writer_releases, emotion_data, returned >>

\* st.progress takes a float in [0.0, 1.0] and raises on any other.
ProgressAccepts(num, den) == 0 <= num /\ num <= den

\* Lines 61-62: frame_number += 1; progress(frame_number / frame_count).
\* The division raises for frame_count = 0, st.progress for a value above 1.
ReportProgress ==
  /\ pc = "progress"
  /\ frame_number' = frame_number + 1
  /\ IF frame_count = 0
       THEN /\ error' = "ZeroDivisionError"
            /\ pc' = "raised"
            /\ UNCHANGED progress_values
       ELSE /\ progress_values' = Append(progress_values, <<frame_number', frame_count>>)
            /\ IF ProgressAccepts(frame_number', frame_count)
                 THEN pc' = "loop" /\ UNCHANGED error
                 ELSE pc' = "raised" /\ error' = "StreamlitAPIException"
  /\ UNCHANGED << video, capture_open, frame_count, frame, frames_read,
                  analyses, written, warnings, capture_releases,
                  writer_releases, emotion_data, returned >>

\* Lines 64-68: release both, report success, return output_path.
Finalize ==
  /\ pc = "finalize"
  /\ capture_open' = FALSE
  /\ capture_releases' = capture_releases + 1
  /\ writer_releases' = writer_releases + 1
  /\ returned' = output_path
  /\ pc' = "done"
  /\ UNCHANGED << video, frame_count, frame_number, frame, frames_read,
                  analyses, written, warnings, progress_values, emotion_data, error >>

Next ==
  \/ Open
  \/ NotOpened
  \/ ReadFrame
  \/ EndOfStream
  \/ Detect
  \/ WriteFrame
  \/ WriteRaises
  \/ ReportProgress
  \/ Finalize

Spec == Init /\ [][Next]_vars

\* ------------------------------------------------------------- properties
Terminated == pc \in {"done", "raised"}

\* The except branch ran for the i-th frame read.
TryRaised(i) == TryBlock(NewFrame(frames_read[i]), analyses[i]).raised

\* Ids of the frames among the first n analysed whose try block raised.
RECURSIVE FailedIds(_)
FailedIds(n) ==
  IF n = 0 THEN <<>>
  ELSE IF TryRaised(n) THEN Append(FailedIds(n - 1), frames_read[n])
       ELSE FailedIds(n - 1)

\* Face records DeepFace.analyze returned over the first n frames analysed.
RECURSIVE RecordsReturned(_)
RecordsReturned(n) ==
  IF n = 0 THEN 0
  ELSE RecordsReturned(n - 1) +
       (IF analyses[n].kind = "raise" THEN 0 ELSE Len(Normalize(analyses[n])))

\* Every frame the run holds or has written.
FramesDrawn == { written[i] : i \in 1..Len(written) } \cup { frame }

\* Labels DeepFace.analyze returned so far.
LabelsSeen ==
  UNION { { DominantEmotion(Normalize(analyses[i])[k]) :
              k \in 1..Len(Normalize(analyses[i])) } :
          i \in { j \in 1..Len(analyses) : analyses[j].kind # "raise" } }

C2_FailedFrameUnannotated ==
  /\ \A i \in 1..Len(written) :
       TryRaised(i) => written[i] = NewFrame(frames_read[i])
  /\ (Len(analyses) > Len(written) /\ TryRaised(Len(analyses))) =>
       (pc = "write" /\ frame = NewFrame(frames_read[Len(analyses)]))

\* C3: the progress values given during a run never decrease, never exceed
\* 1.0, and the last one is 1.0 when the run ends, for every reported frame
\* count.
C3_ProgressSaturates ==
  /\ \A i \in 1..Len(progress_values) : progress_values[i][1] <= progress_values[i][2]
  /\ \A i, j \in 1..Len(progress_values) :
       i < j => progress_values[i][1] * progress_values[j][2]
                  <= progress_values[j][1] * progress_values[i][2]
  /\ (Terminated /\ num_frames >= 1 /\ error # "cv2.error") =>
       progress_values[Len(progress_values)][1] = progress_values[Len(progress_values)][2]

\* C4: on every exit of a run that opened the source and the sink, normal
\* or by an exception of the sink write or of progress reporting, the
\* capture and the writer have each been released exactly once.
C4_ReleasedOnEveryExit ==
  (Terminated /\ source_ok) => (capture_releases = 1 /\ writer_releases = 1)

\* C5: when the source cannot be opened, no frame is read or written and
\* the run never completes as a success: it returns no output path.
C5_UnopenableSourceFails ==
  ~source_ok => /\ frames_read = <<>>
                /\ written = <<>>
                /\ pc # "done"
                /\ returned = "none"

\* C6: at the end of a run the emotion histogram of the run totals the
\* number of face records the detector returned over all frames.
C6_HistogramTotalsRecords ==
  pc = "done" => SumCounts(emotion_counts(emotion_data)) = RecordsReturned(Len(analyses))

\* C7: a detection whose label is not in EMOTIONS_COLORS is drawn with the
\* colour of the "Unknown" entry, box and label, and the chart uses that
\* colour for such a label too.
C7_UnknownFallbackColor ==
  /\ \A f \in FramesDrawn : \A k \in 1..Len(f.marks) :
       (f.marks[k].shape = "text" /\ f.marks[k].text \notin DOMAIN EMOTIONS_COLORS) =>
         /\ f.marks[k].color = EMOTIONS_COLORS["Unknown"]
         /\ f.marks[k - 1] = Rectangle(EMOTIONS_COLORS["Unknown"])
  /\ \A e \in LabelsSeen :
       e \notin DOMAIN EMOTIONS_COLORS => ChartColor(e) = EMOTIONS_COLORS["Unknown"]

\* C8: whatever frame count the container reports, zero included, progress
\* reporting raises nothing, every readable frame is processed and the run
\* reaches its normal end.
C8_ProgressNeverAborts ==
  /\ error \notin {"ZeroDivisionError", "StreamlitAPIException"}
  /\ (Terminated /\ error # "cv2.error") =>
       (pc = "done" /\ Len(analyses) = num_frames)

\* C9: the warnings logged are, in order, exactly the 0-based indices of the
\* frames analysed so far whose detection step failed: one per failed frame,
\* none for a frame that succeeded.
C9_WarningsCiteFailedFrames ==
  warnings = FailedIds(Len(analyses))

\* C9 witness: a finished three-frame run whose frames 0 and 2 failed and
\* whose frame 1 succeeded.
C9_Witness ==
  /\ pc = "done"
  /\ Len(analyses) = 3
  /\ TryRaised(1) /\ ~TryRaised(2) /\ TryRaised(3)
  /\ warnings = <<0, 2>>

\* C10: the frames written are a prefix of the frames read, in source order,
\* none twice or skipped, and at most one frame, the current one, has been
\* read and not yet written.
C10_WrittenPrefixOfRead ==
  /\ Len(written) <= Len(frames_read)
  /\ Len(frames_read) <= Len(written) + 1
  /\ \A i \in 1..Len(frames_read) : frames_read[i] = i - 1
  /\ \A i \in 1..Len(written) : written[i].id = frames_read[i]
  /\ Len(frames_read) = Len(written) + 1 => frame.id = frames_read[Len(frames_read)]

\* C10 witness: two frames written, one of them after a failed detection,
\* and a third read and waiting for the write.
C10_Witness ==
  /\ Len(written) = 2
  /\ Len(frames_read) = 3
  /\ pc = "write"
  /\ TryRaised(1) /\ TryRaised(3)

====
